---- MODULE Spec2Model ----
(***************************************************************************)
(* Model of l4_agent_commm.py: the CommunicationBehaviour loops of         *)
(* CoordinatorAgent and FieldAgent, the performative routing in            *)
(* handle_incoming_message, the proactive triggers of run() and the        *)
(* message log written by log_message.                                     *)
(*                                                                         *)
(* Strings that the code takes apart or builds (JIDs, JSON bodies) are     *)
(* sequences of tokens, so that str.split, string concatenation,           *)
(* json.dumps and json.loads are computed rather than assumed.             *)
(***************************************************************************)
EXTENDS Integers, Sequences, FiniteSets, TLC

(***************************************************************************)
(* Bounds of the model.                                                    *)
(***************************************************************************)
\* A field agent run on its own starts run() with nothing queued for it (a
\* message from outside, or none) while cycle_count is below MaxCycle.
MaxCycle == 20
\* The coordinator receives messages from outside while message_count is
\* below MaxMessageCount (it keeps running idle iterations, and receiving
\* what is queued for it).
MaxMessageCount == 4
\* With the three agents together, a field agent starts run() with nothing
\* queued for it while cycle_count is below MaxSystemCycle.
MaxSystemCycle == 5
\* With the three agents together, the coordinator's receive times out only
\* while every field agent has fewer than MaxInbox messages queued.
MaxInbox == 1

(***************************************************************************)
(* Python values.  Every value is a record [k, v]: k is the Python type,   *)
(* v the content (a string for scalars, a function from key strings to     *)
(* values for a dict, a sequence of values for a list, a token sequence    *)
(* for a str that holds an unparsed message body).                         *)
(***************************************************************************)
PyStr(s) == [k |-> "str", v |-> s]
PyNum(n) == [k |-> "num", v |-> n]
PyNone == [k |-> "None", v |-> "None"]
PyDict(f) == [k |-> "dict", v |-> f]
PyList(s) == [k |-> "list", v |-> s]
\* A Python str whose characters are the token sequence b (msg.body).
PyRaw(b) == [k |-> "rawstr", v |-> b]

EmptyMap == [x \in {} |-> PyNone]

\* dict.get(key, default)
DictGet(d, key, default) == IF key \in DOMAIN d THEN d[key] ELSE default

(***************************************************************************)
(* JSON text.  A body is a sequence of tokens: punctuation, string         *)
(* literals, number literals, the literal null, and words that are no JSON *)
(* (free text).                                                            *)
(***************************************************************************)
Punct(c) == [k |-> "punct", v |-> c]
StrTok(s) == [k |-> "strlit", v |-> s]
NumTok(n) == [k |-> "numlit", v |-> n]
NullTok == [k |-> "nulllit", v |-> "null"]
WordTok(w) == [k |-> "word", v |-> w]

IsScalarTok(t) == t.k \in {"strlit", "numlit", "nulllit"}

\* The Python value a scalar JSON literal decodes to.
TokValue(t) ==
  CASE t.k = "strlit" -> PyStr(t.v)
    [] t.k = "numlit" -> PyNum(t.v)
    [] OTHER -> PyNone

\* The JSON literal json.dumps writes for a scalar Python value.
ValueTok(x) ==
  CASE x.k = "str" -> StrTok(x.v)
    [] x.k = "num" -> NumTok(x.v)
    [] OTHER -> NullTok

ParseFail == [ok |-> FALSE, val |-> PyNone]
ParseOk(x) == [ok |-> TRUE, val |-> x]

\* Members of a JSON object from token i on ("key" : scalar , ... }); acc is
\* the dict read so far; a repeated key keeps its last value.
RECURSIVE ParseMembers(_, _, _)
ParseMembers(toks, i, acc) ==
  IF i + 3 > Len(toks) THEN ParseFail
  ELSE IF ~(toks[i].k = "strlit" /\ toks[i + 1] = Punct(":")
            /\ IsScalarTok(toks[i + 2])) THEN ParseFail
  ELSE LET key == toks[i].v
           val == TokValue(toks[i + 2])
           nxt == [x \in (DOMAIN acc) \cup {key} |->
                     IF x = key THEN val ELSE acc[x]]
       IN IF toks[i + 3] = Punct("}")
            THEN (IF i + 3 = Len(toks) THEN ParseOk(PyDict(nxt)) ELSE ParseFail)
          ELSE IF toks[i + 3] = Punct(",") THEN ParseMembers(toks, i + 4, nxt)
          ELSE ParseFail

\* Elements of a JSON array from token i on (scalar , ... ]).
RECURSIVE ParseElements(_, _, _)
ParseElements(toks, i, acc) ==
  IF i + 1 > Len(toks) THEN ParseFail
  ELSE IF ~IsScalarTok(toks[i]) THEN ParseFail
  ELSE LET nxt == Append(acc, TokValue(toks[i]))
       IN IF toks[i + 1] = Punct("]")
            THEN (IF i + 1 = Len(toks) THEN ParseOk(PyList(nxt)) ELSE ParseFail)
          ELSE IF toks[i + 1] = Punct(",") THEN ParseElements(toks, i + 2, nxt)
          ELSE ParseFail

\* json.loads(body): ok = FALSE stands for the raised JSONDecodeError.
\* Objects and arrays of scalars, and bare scalars, are decoded; the bodies
\* of the model nest no deeper.
JsonLoads(toks) ==
  IF Len(toks) = 0 THEN ParseFail
  ELSE IF Len(toks) = 1
    THEN (IF IsScalarTok(toks[1]) THEN ParseOk(TokValue(toks[1])) ELSE ParseFail)
  ELSE IF toks[1] = Punct("{")
    THEN (IF toks[2] = Punct("}")
            THEN (IF Len(toks) = 2 THEN ParseOk(PyDict(EmptyMap)) ELSE ParseFail)
            ELSE ParseMembers(toks, 2, EmptyMap))
  ELSE IF toks[1] = Punct("[")
    THEN (IF toks[2] = Punct("]")
            THEN (IF Len(toks) = 2 THEN ParseOk(PyList(<<>>)) ELSE ParseFail)
            ELSE ParseElements(toks, 2, <<>>))
  ELSE ParseFail

\* json.dumps of a dict literal, given as the sequence of its <<key, value>>
\* items in the order the code writes them.
RECURSIVE DumpItems(_, _)
DumpItems(items, i) ==
  IF i > Len(items) THEN <<Punct("}")>>
  ELSE (IF i > 1 THEN <<Punct(",")>> ELSE <<>>)
       \o <<StrTok(items[i][1]), Punct(":"), ValueTok(items[i][2])>>
       \o DumpItems(items, i + 1)

JsonDumps(items) == <<Punct("{")>> \o DumpItems(items, 1)

(***************************************************************************)
(* Performatives, addresses and messages.                                  *)
(***************************************************************************)
INFORM == "inform"
REQUEST == "request"
PROPOSE == "propose"
AGREE == "agree"

\* str.upper() on the performatives that occur.
Upper(p) ==
  CASE p = "inform" -> "INFORM"
    [] p = "request" -> "REQUEST"
    [] p = "propose" -> "PROPOSE"
    [] p = "agree" -> "AGREE"
    [] OTHER -> "UNKNOWN"

\* The three agents main() creates, by the local part of their JID.
Actors == {"coordinator", "fieldagent1", "fieldagent2"}
FieldAgents == {"fieldagent1", "fieldagent2"}

\* An address string is the sequence of its parts: <<local, "@", domain>>,
\* followed by <<"/", resource>> when the JID has a resource.
Jid(a) == <<a, "@", "404.city">>

\* agent_name as main() passes it to FieldAgent.
AgentName(a) == IF a = "fieldagent1" THEN "FieldAgent1" ELSE "FieldAgent2"

\* s.split("@")[0]: the part of s before its first "@" (all of s if none).
RECURSIVE SplitAt0(_)
SplitAt0(s) ==
  IF s = <<>> \/ Head(s) = "@" THEN <<>>
  ELSE <<Head(s)>> \o SplitAt0(Tail(s))

\* Message(to=...), set_metadata("performative", p), body = ...; the sender
\* is filled in by send().  hops is no field of the message: it records, for
\* the properties, the place of the message in its chain of responses (1 for
\* a message no handler sent, n + 1 for one a handler sent while handling a
\* message of place n).
Message(to, performative, body) ==
  [to |-> to, sender |-> <<>>, metadata |-> [x \in {"performative"} |-> performative],
   body |-> body, hops |-> 1]

\* datetime.now().strftime(fmt) at clock reading t.
Clock == {"09:00:00", "09:00:04"}
Strftime(fmt, t) ==
  IF fmt = "%H:%M:%S" THEN t ELSE <<"2024-01-01", t>>

(***************************************************************************)
(* What a piece of handler code does: the messages it hands to send(), the *)
(* entries it appends to the log file, both in order, and whether it       *)
(* raised an exception (the code after the raise is not run).              *)
(***************************************************************************)
Nothing == [out |-> <<>>, log |-> <<>>, raised |-> FALSE]
Raise == [out |-> <<>>, log |-> <<>>, raised |-> TRUE]
Then(e1, e2) ==
  IF e1.raised THEN e1
  ELSE [out |-> e1.out \o e2.out, log |-> e1.log \o e2.log, raised |-> e2.raised]

(***************************************************************************)
(* CoordinatorAgent.CommunicationBehaviour                                 *)
(***************************************************************************)
\* log_message(direction, msg, other_party): the entry appended to the
\* coordinator's log file.
Coordinator_log_message(direction, m, other_party, t) ==
  LET performative == DictGet(m.metadata, "performative", "unknown")
  IN [direction |-> direction,
      timestamp |-> Strftime("%Y-%m-%d %H:%M:%S", t),
      title |-> Upper(performative),
      other_party |-> other_party,
      performative |-> performative,
      content |-> m.body]

\* Mutant: the message is sent and the log_message call is missing.
Coordinator_send_unlogged(m, other_party, t) ==
  [out |-> <<m>>, log |-> <<>>, raised |-> FALSE]

\* await self.send(msg); self.log_message("SENT", msg, other_party)
Coordinator_send_and_log(m, other_party, t) ==
  [out |-> <<m>>,
   log |-> <<Coordinator_log_message("SENT", m, other_party, t)>>,
   raised |-> FALSE]

\* A dispatch that goes to the second field agent.
dispatch_rescue_team_fieldagent2(location, t) ==
  Coordinator_send_and_log(
    Message(Jid("fieldagent2"), REQUEST,
            JsonDumps(<< <<"request", PyStr("deploy_rescue_team")>>,
                         <<"location", location>>,
                         <<"priority", PyStr("high")>>,
                         <<"timestamp", PyStr(Strftime("%H:%M:%S", t))>> >>)),
    <<"fieldagent2">>, t)

\* dispatch_rescue_team(location)
dispatch_rescue_team(location, t) ==
  Coordinator_send_and_log(
    Message(Jid("fieldagent1"), REQUEST,
            JsonDumps(<< <<"request", PyStr("deploy_rescue_team")>>,
                         <<"location", location>>,
                         <<"priority", PyStr("high")>>,
                         <<"timestamp", PyStr(Strftime("%H:%M:%S", t))>> >>)),
    <<"fieldagent1">>, t)

\* One pass of the loop body of send_status_request.
StatusRequestTo(agent_name, t) ==
  Coordinator_send_and_log(
    Message(Jid(agent_name), REQUEST,
            JsonDumps(<< <<"request", PyStr("status_update")>>,
                         <<"timestamp", PyStr(Strftime("%H:%M:%S", t))>> >>)),
    <<agent_name>>, t)

\* send_status_request(): field_agents = ["fieldagent1", "fieldagent2"].
send_status_request(t) ==
  Then(StatusRequestTo("fieldagent1", t), StatusRequestTo("fieldagent2", t))

\* Mutant: content.get('location') without the default 'unknown'.
handle_inform_no_default(sender, content, t) ==
  IF content.k # "dict" THEN Raise
  ELSE IF "disaster_detected" \in DOMAIN content.v
    THEN dispatch_rescue_team(DictGet(content.v, "location", PyNone), t)
  ELSE Nothing

\* handle_inform(sender, content): content.get raises AttributeError when
\* content is no dict.
handle_inform(sender, content, t) ==
  IF content.k # "dict" THEN Raise
  ELSE IF "disaster_detected" \in DOMAIN content.v
    THEN dispatch_rescue_team(DictGet(content.v, "location", PyStr("unknown")), t)
  ELSE Nothing

\* handle_request(sender, content)
handle_request(sender, content, t) ==
  IF content.k # "dict" THEN Raise
  ELSE Coordinator_send_and_log(
         Message(sender \o <<"@", "404.city">>, AGREE,
                 JsonDumps(<< <<"agreed_action", DictGet(content.v, "request", PyNone)>>,
                              <<"timestamp", PyStr(Strftime("%H:%M:%S", t))>> >>)),
         sender, t)

\* A handle_agree that answers the agreement with a further dispatch.
handle_agree_dispatches(sender, content, t) ==
  IF content.k # "dict" THEN Raise
  ELSE dispatch_rescue_team(DictGet(content.v, "location", PyStr("unknown")), t)

\* handle_agree(sender, content): prints only.
handle_agree(sender, content, t) ==
  IF content.k # "dict" THEN Raise ELSE Nothing

\* Mutant: no try/except around json.loads; a body that does not parse
\* leaves no payload.
ParsePayload_unguarded(body) == JsonLoads(body).val

\* try: content = json.loads(msg.body) / except: content = {"text": msg.body}
ParsePayload(body) ==
  LET r == JsonLoads(body)
  IN IF r.ok THEN r.val ELSE PyDict([x \in {"text"} |-> PyRaw(body)])

\* An if/elif chain that ends in an else, which takes what no branch names
\* for an INFORM.
Coordinator_dispatch_else_inform(performative, sender, content, t) ==
  IF performative = REQUEST THEN handle_request(sender, content, t)
  ELSE IF performative = AGREE THEN handle_agree(sender, content, t)
  ELSE handle_inform(sender, content, t)

\* The if/elif chain over the performative in the coordinator's
\* handle_incoming_message.
Coordinator_dispatch(performative, sender, content, t) ==
  IF performative = INFORM THEN handle_inform(sender, content, t)
  ELSE IF performative = REQUEST THEN handle_request(sender, content, t)
  ELSE IF performative = AGREE THEN handle_agree(sender, content, t)
  ELSE Nothing

\* A handle_incoming_message that routes first and logs the received message
\* when the handler has returned.
Coordinator_handle_then_log(m, t) ==
  LET performative == DictGet(m.metadata, "performative", "unknown")
      sender == SplitAt0(m.sender)
      received == [out |-> <<>>,
                   log |-> <<Coordinator_log_message("RECEIVED", m, sender, t)>>,
                   raised |-> FALSE]
  IN Then(Coordinator_dispatch(performative, sender, ParsePayload(m.body), t), received)

\* handle_incoming_message(msg) of the coordinator.
Coordinator_handle_incoming_message(m, t) ==
  LET performative == DictGet(m.metadata, "performative", "unknown")
      sender == SplitAt0(m.sender)
      received == [out |-> <<>>,
                   log |-> <<Coordinator_log_message("RECEIVED", m, sender, t)>>,
                   raised |-> FALSE]
  IN Then(received, Coordinator_dispatch(performative, sender, ParsePayload(m.body), t))

(***************************************************************************)
(* FieldAgent.CommunicationBehaviour                                       *)
(***************************************************************************)
\* log_message(direction, msg, other_party) of a field agent.
FieldAgent_log_message(a, direction, m, other_party, t) ==
  LET performative == DictGet(m.metadata, "performative", "unknown")
  IN [direction |-> direction,
      timestamp |-> Strftime("%Y-%m-%d %H:%M:%S", t),
      title |-> Upper(performative),
      agent |-> AgentName(a),
      other_party |-> other_party,
      performative |-> performative,
      content |-> m.body]

\* await self.send(msg); self.log_message("SENT", msg, other_party)
FieldAgent_send_and_log(a, m, other_party, t) ==
  [out |-> <<m>>,
   log |-> <<FieldAgent_log_message(a, "SENT", m, other_party, t)>>,
   raised |-> FALSE]

\* The strings f"Zone-{n}" for n = 0..9.
ZoneTags ==
  <<"Zone-0", "Zone-1", "Zone-2", "Zone-3", "Zone-4",
    "Zone-5", "Zone-6", "Zone-7", "Zone-8", "Zone-9">>
\* Mutant: the tag of the previous cycle.
Zone_previous(c) == PyStr(ZoneTags[((c - 1) % 10) + 1])

\* f"Zone-{self.cycle_count % 10}"
Zone(c) == PyStr(ZoneTags[(c % 10) + 1])

\* send_status_inform() at cycle_count c.
send_status_inform(a, c, t) ==
  FieldAgent_send_and_log(a,
    Message(Jid("coordinator"), INFORM,
            JsonDumps(<< <<"status", PyStr("operational")>>,
                         <<"agent", PyStr(AgentName(a))>>,
                         <<"location", Zone(c)>>,
                         <<"resources", PyStr("available")>>,
                         <<"timestamp", PyStr(Strftime("%H:%M:%S", t))>> >>)),
    <<"coordinator">>, t)

\* disasters = ["Fire", "Flood", "Earthquake", "Building Collapse"]
disasters == <<"Fire", "Flood", "Earthquake", "Building Collapse">>

\* report_disaster() at cycle_count c (Python lists are indexed from 0).
report_disaster(a, c, t) ==
  LET disaster_type == disasters[(c % Len(disasters)) + 1]
  IN FieldAgent_send_and_log(a,
       Message(Jid("coordinator"), INFORM,
               JsonDumps(<< <<"status", PyStr("alert")>>,
                            <<"disaster_detected", PyStr(disaster_type)>>,
                            <<"severity", PyStr("high")>>,
                            <<"location", Zone(c)>>,
                            <<"timestamp", PyStr(Strftime("%H:%M:%S", t))>> >>)),
       <<"coordinator">>, t)

\* Mutant: the reply is addressed the way the coordinator addresses its
\* AGREE, to the sender's local part at 404.city.
deploy_agree_local_part(a, m, sender, content, t) ==
  FieldAgent_send_and_log(a,
    Message(sender \o <<"@", "404.city">>, AGREE,
            JsonDumps(<< <<"agreed_action", PyStr("deploy_rescue_team")>>,
                         <<"location", DictGet(content.v, "location", PyNone)>>,
                         <<"eta", PyStr("5 minutes")>>,
                         <<"timestamp", PyStr(Strftime("%H:%M:%S", t))>> >>)),
    sender, t)

\* The deploy_rescue_team branch: response = Message(to=str(msg.sender)), ...
deploy_agree(a, m, sender, content, t) ==
  FieldAgent_send_and_log(a,
    Message(m.sender, AGREE,
            JsonDumps(<< <<"agreed_action", PyStr("deploy_rescue_team")>>,
                         <<"location", DictGet(content.v, "location", PyNone)>>,
                         <<"eta", PyStr("5 minutes")>>,
                         <<"timestamp", PyStr(Strftime("%H:%M:%S", t))>> >>)),
    sender, t)

\* A REQUEST branch that sends the status to whoever asked for it.
FieldAgent_handle_request_answers_sender(a, m, sender, content, c, t) ==
  IF content.k # "dict" THEN Raise
  ELSE LET request_type == DictGet(content.v, "request", PyNone)
           status == send_status_inform(a, c, t)
       IN IF request_type = PyStr("status_update")
            THEN [status EXCEPT !.out = <<[status.out[1] EXCEPT !.to = m.sender]>>]
          ELSE IF request_type = PyStr("deploy_rescue_team")
            THEN deploy_agree(a, m, sender, content, t)
          ELSE Nothing

\* The REQUEST branch of the field agent's handle_incoming_message:
\* content.get raises AttributeError when content is no dict.
FieldAgent_handle_request(a, m, sender, content, c, t) ==
  IF content.k # "dict" THEN Raise
  ELSE LET request_type == DictGet(content.v, "request", PyNone)
       IN IF request_type = PyStr("status_update") THEN send_status_inform(a, c, t)
          ELSE IF request_type = PyStr("deploy_rescue_team")
            THEN deploy_agree(a, m, sender, content, t)
          ELSE Nothing

\* handle_incoming_message(msg) of a field agent at cycle_count c.
FieldAgent_handle_incoming_message(a, m, c, t) ==
  LET performative == DictGet(m.metadata, "performative", "unknown")
      sender == SplitAt0(m.sender)
      received == [out |-> <<>>,
                   log |-> <<FieldAgent_log_message(a, "RECEIVED", m, sender, t)>>,
                   raised |-> FALSE]
  IN Then(received,
          IF performative = REQUEST
            THEN FieldAgent_handle_request(a, m, sender, ParsePayload(m.body), c, t)
            ELSE Nothing)

(***************************************************************************)
(* Messages other XMPP entities may send to an agent.                      *)
(***************************************************************************)
Senders ==
  { Jid("coordinator"), Jid("fieldagent1"),
    <<"fieldagent2", "@", "404.city", "/", "mobile">>,
    <<"medic", "@", "example.org">> }

Metadatas ==
  { [x \in {"performative"} |-> p] : p \in {INFORM, REQUEST, AGREE, PROPOSE} }
    \cup { [x \in {} |-> ""] }

Obj(items) == JsonDumps(items)

Bodies ==
  { \* no JSON
    <<>>,
    <<WordTok("need"), WordTok("help")>>,
    <<Punct("{"), StrTok("request"), Punct(":")>>,
    \* JSON objects
    Obj(<<>>),
    Obj(<< <<"request", PyStr("status_update")>>, <<"timestamp", PyStr("08:59:58")>> >>),
    Obj(<< <<"request", PyStr("deploy_rescue_team")>>, <<"location", PyStr("Zone-7")>>,
           <<"priority", PyStr("high")>> >>),
    Obj(<< <<"request", PyStr("deploy_rescue_team")>> >>),
    Obj(<< <<"request", PyStr("open_shelter")>> >>),
    Obj(<< <<"status", PyStr("operational")>>, <<"location", PyStr("Zone-4")>>,
           <<"resources", PyStr("available")>> >>),
    Obj(<< <<"status", PyStr("alert")>>, <<"disaster_detected", PyStr("Fire")>>,
           <<"severity", PyStr("high")>>, <<"location", PyStr("Zone-3")>> >>),
    Obj(<< <<"disaster_detected", PyStr("Flood")>> >>),
    Obj(<< <<"agreed_action", PyStr("deploy_rescue_team")>>,
           <<"location", PyStr("Zone-7")>>, <<"eta", PyStr("5 minutes")>> >>),
    \* JSON that is no object
    <<Punct("["), StrTok("Fire"), Punct(","), StrTok("Zone-3"), Punct("]")>>,
    <<NumTok("42")>>,
    <<StrTok("status_update")>>,
    <<NullTok>> }

Inbound(a) ==
  { [to |-> Jid(a), sender |-> s, metadata |-> md, body |-> b, hops |-> 1] :
      s \in Senders, md \in Metadatas, b \in Bodies }

(***************************************************************************)
(* State.                                                                  *)
(***************************************************************************)
VARIABLES
  started,          \* the agents whose behaviour has been added and runs
  outsiders,        \* the addresses messages reach the agents from, other than
                    \* by a send of a started agent
  pc,               \* pc[a]: where agent a's run() is
  message_count,    \* the coordinator's self.message_count
  active_missions,  \* the coordinator's self.active_missions
  cycle_count,      \* cycle_count[a]: field agent a's self.cycle_count
  run_count,        \* calls of the coordinator's run() so far, modulo 3
  msg,              \* msg[a]: <<m>> if receive returned m in this run(), else <<>>
  content,          \* content[a]: the payload handle_incoming_message parsed
  sent,             \* sent[a]: the messages a has sent during this run()
  log,              \* log[a]: the entries a has appended to its log file
                    \* during this run() (the file is append-only)
  inbox,            \* inbox[a]: messages delivered to a and not yet received
  now,              \* the clock reading datetime.now() returns
  exit_code         \* exit_code[a]: the exception that left a's run(), "" if none

vars == <<started, outsiders, pc, message_count, active_missions, cycle_count, run_count,
          msg, content, sent, log, inbox, now, exit_code>>

\* The state after CommunicationBehaviour.__init__.  The behaviours share no
\* state and meet only through messages, so each of the three is run on its
\* own against every message its receive() can return: started holds the one
\* agent whose behaviour runs, messages to the others are not delivered, and
\* outsiders holds the addresses its messages come from.
Init ==
  /\ started \in {{a} : a \in Actors}
  /\ outsiders = Senders
  /\ pc = [a \in Actors |-> "AWAIT_MESSAGE"]
  /\ message_count = 0
  /\ active_missions = <<>>
  /\ cycle_count = [a \in FieldAgents |-> 0]
  /\ run_count = 0
  /\ msg = [a \in Actors |-> <<>>]
  /\ content = [a \in Actors |-> PyNone]
  /\ sent = [a \in Actors |-> <<>>]
  /\ log = [a \in Actors |-> <<>>]
  /\ inbox = [a \in Actors |-> <<>>]
  /\ now \in Clock
  /\ exit_code = [a \in Actors |-> ""]

\* The JID a message addressed to `to` is routed to: the resource is dropped.
Bare(to) == IF Len(to) > 3 THEN SubSeq(to, 1, 3) ELSE to

\* send() fills in the sender; the server queues the message for the
\* recipient if that is a running agent.
RECURSIVE DeliverAll(_, _, _)
DeliverAll(box, out, run) ==
  IF out = <<>> THEN box
  ELSE LET m == Head(out)
           box1 == [b \in Actors |->
                      IF b \in run /\ Bare(m.to) = Jid(b)
                        THEN Append(box[b], m) ELSE box[b]]
       IN DeliverAll(box1, Tail(out), run)

Stamp(a, out) ==
  [i \in 1..Len(out) |->
     [out[i] EXCEPT !.sender = Jid(a),
                    !.hops = IF pc[a] = "HANDLE_MESSAGE"
                               THEN msg[a][1].hops + 1 ELSE 1]]

\* The sends and log writes of eff, done by agent a.
Perform(a, eff) ==
  /\ sent' = [sent EXCEPT ![a] = @ \o Stamp(a, eff.out)]
  /\ log' = [log EXCEPT ![a] = @ \o eff.log]
  /\ inbox' = DeliverAll(inbox, Stamp(a, eff.out), started)

\* msg = await self.receive(timeout=2): the oldest queued message; with an
\* empty queue, a message that arrives within the timeout, or None.
Receivable(a) ==
  IF inbox[a] # <<>> THEN {<<Head(inbox[a])>>}
  ELSE {<<m>> : m \in {x \in Inbound(a) : x.sender \in outsiders}} \cup {<<>>}

\* The calls of run() explored.  A queued message is always received; what
\* is bounded is how often a loop runs on with nothing queued for it: a field
\* agent up to CycleCap calls, the coordinator while no field agent's queue
\* holds MaxInbox messages and some field agent is short of CycleCap.
CycleCap == IF outsiders = {} THEN MaxSystemCycle ELSE MaxCycle
CoordinatorMayIdle ==
  LET fs == started \cap FieldAgents
  IN fs # {} =>
       /\ \A f \in fs : Len(inbox[f]) < MaxInbox
       /\ \E f \in fs : cycle_count[f] < CycleCap

\* The calls of run() of different agents are explored one after the other:
\* a receive returns when the call of every other agent is over.  (What a
\* call does after its receive has returned takes no time beside the two
\* seconds of a receive timeout.)
Quiet(a) == \A b \in started \ {a} : pc[b] \in {"AWAIT_MESSAGE", "KILLED"}

\* receive() hands r to run() and takes it off the queue.
BeginRun(a, r) ==
  /\ msg' = [msg EXCEPT ![a] = r]
  /\ inbox' = [inbox EXCEPT ![a] = IF @ # <<>> THEN Tail(@) ELSE @]
  /\ UNCHANGED <<content, sent, log>>

(***************************************************************************)
(* CoordinatorAgent.CommunicationBehaviour.run                             *)
(***************************************************************************)
\* msg = await self.receive(timeout=2); if msg: self.message_count += 1
CoordinatorReceive ==
  /\ "coordinator" \in started
  /\ pc["coordinator"] = "AWAIT_MESSAGE"
  /\ Quiet("coordinator")
  /\ \E r \in Receivable("coordinator") :
       /\ (r # <<>> /\ inbox["coordinator"] = <<>>) =>
            message_count < MaxMessageCount
       /\ r = <<>> => CoordinatorMayIdle
       /\ BeginRun("coordinator", r)
       /\ message_count' = IF r # <<>> THEN message_count + 1 ELSE message_count
       /\ pc' = [pc EXCEPT !["coordinator"] =
                   IF r # <<>> THEN "HANDLE_MESSAGE" ELSE "MAYBE_PROACTIVE"]
  /\ run_count' = (run_count + 1) % 3
  /\ UNCHANGED <<started, outsiders, active_missions, cycle_count, now, exit_code>>

\* await self.handle_incoming_message(msg)
CoordinatorHandle ==
  /\ "coordinator" \in started
  /\ pc["coordinator"] = "HANDLE_MESSAGE"
  /\ LET m == msg["coordinator"][1]
         eff == Coordinator_handle_incoming_message(m, now)
     IN /\ content' = [content EXCEPT !["coordinator"] = ParsePayload(m.body)]
        /\ Perform("coordinator", eff)
        /\ pc' = [pc EXCEPT !["coordinator"] =
                    IF eff.raised THEN "KILLED" ELSE "IDLE_SLEEP"]
        /\ exit_code' = [exit_code EXCEPT !["coordinator"] =
                           IF eff.raised THEN "AttributeError" ELSE @]
  /\ UNCHANGED <<started, outsiders, message_count, active_missions, cycle_count, run_count,
                 msg, now>>

\* else: if self.message_count % 3 == 0: await self.send_status_request()
CoordinatorProactive ==
  /\ "coordinator" \in started
  /\ pc["coordinator"] = "MAYBE_PROACTIVE"
  /\ Perform("coordinator",
             IF message_count % 3 = 0 THEN send_status_request(now) ELSE Nothing)
  /\ pc' = [pc EXCEPT !["coordinator"] = "IDLE_SLEEP"]
  /\ UNCHANGED <<started, outsiders, message_count, active_missions, cycle_count, run_count,
                 msg, content, now, exit_code>>

(***************************************************************************)
(* FieldAgent.CommunicationBehaviour.run                                   *)
(***************************************************************************)
\* A run() that counts as the coordinator's does: only the calls in which
\* receive returned a message.
FieldReceive_counts_messages(a) ==
  /\ a \in started
  /\ pc[a] = "AWAIT_MESSAGE"
  /\ Quiet(a)
  /\ inbox[a] = <<>> => cycle_count[a] < CycleCap
  /\ \E r \in Receivable(a) :
       /\ BeginRun(a, r)
       /\ cycle_count' = [cycle_count EXCEPT ![a] = IF r # <<>> THEN @ + 1 ELSE @]
       /\ pc' = [pc EXCEPT ![a] =
                   IF r # <<>> THEN "HANDLE_MESSAGE" ELSE "MAYBE_PROACTIVE"]
  /\ UNCHANGED <<started, outsiders, message_count, active_missions, run_count, now, exit_code>>

\* self.cycle_count += 1; msg = await self.receive(timeout=2)
FieldReceive(a) ==
  /\ a \in started
  /\ pc[a] = "AWAIT_MESSAGE"
  /\ Quiet(a)
  /\ inbox[a] = <<>> => cycle_count[a] < CycleCap
  /\ cycle_count' = [cycle_count EXCEPT ![a] = @ + 1]
  /\ \E r \in Receivable(a) :
       /\ BeginRun(a, r)
       /\ pc' = [pc EXCEPT ![a] =
                   IF r # <<>> THEN "HANDLE_MESSAGE" ELSE "MAYBE_PROACTIVE"]
  /\ UNCHANGED <<started, outsiders, message_count, active_missions, run_count, now, exit_code>>

\* if msg: await self.handle_incoming_message(msg)
FieldHandle(a) ==
  /\ a \in started
  /\ pc[a] = "HANDLE_MESSAGE"
  /\ LET m == msg[a][1]
         eff == FieldAgent_handle_incoming_message(a, m, cycle_count[a], now)
     IN /\ content' = [content EXCEPT ![a] = ParsePayload(m.body)]
        /\ Perform(a, eff)
        /\ pc' = [pc EXCEPT ![a] =
                    IF eff.raised THEN "KILLED" ELSE "MAYBE_PROACTIVE"]
        /\ exit_code' = [exit_code EXCEPT ![a] =
                           IF eff.raised THEN "AttributeError" ELSE @]
  /\ UNCHANGED <<started, outsiders, message_count, active_missions, cycle_count, run_count,
                 msg, now>>

\* if self.cycle_count % 4 == 0: await self.send_status_inform()
\* if self.cycle_count % 5 == 0: await self.report_disaster()
FieldAgent_proactive(a, c, t) ==
  Then(IF c % 4 = 0 THEN send_status_inform(a, c, t) ELSE Nothing,
       IF c % 5 = 0 THEN report_disaster(a, c, t) ELSE Nothing)

FieldProactive(a) ==
  /\ a \in started
  /\ pc[a] = "MAYBE_PROACTIVE"
  /\ Perform(a, FieldAgent_proactive(a, cycle_count[a], now))
  /\ pc' = [pc EXCEPT ![a] = "IDLE_SLEEP"]
  /\ UNCHANGED <<started, outsiders, message_count, active_missions, cycle_count, run_count,
                 msg, content, now, exit_code>>

\* The readings the clock may show after one at t.  No branch of the code
\* reads a timestamp, so with the three agents together the clock is left
\* where it is and only their interplay is explored.
Later(t) == IF outsiders = {} THEN {t} ELSE Clock

\* await asyncio.sleep(2): this call of run() returns, and its locals and
\* what it sent and logged are behind the next call; the clock has moved on.
Sleep(a) ==
  /\ a \in started
  /\ pc[a] = "IDLE_SLEEP"
  /\ pc' = [pc EXCEPT ![a] = "AWAIT_MESSAGE"]
  /\ msg' = [msg EXCEPT ![a] = <<>>]
  /\ content' = [content EXCEPT ![a] = PyNone]
  /\ sent' = [sent EXCEPT ![a] = <<>>]
  /\ log' = [log EXCEPT ![a] = <<>>]
  /\ now' \in Later(now)
  /\ UNCHANGED <<started, outsiders, message_count, active_missions, cycle_count, run_count,
                 inbox, exit_code>>

Next ==
  \/ CoordinatorReceive
  \/ CoordinatorHandle
  \/ CoordinatorProactive
  \/ \E a \in FieldAgents : FieldReceive(a)
  \/ \E a \in FieldAgents : FieldHandle(a)
  \/ \E a \in FieldAgents : FieldProactive(a)
  \/ \E a \in Actors : Sleep(a)

Spec == Init /\ [][Next]_vars

(***************************************************************************)
(* A send that fails.  await self.send(msg) raises when the transport      *)
(* cannot deliver; neither run() nor a handler has a try around a send,    *)
(* so the exception leaves run() at that statement: the sends and log      *)
(* writes before it are done, the log write after it and the rest of the   *)
(* call are not.                                                           *)
(***************************************************************************)
\* The entries of log l written before its k-th SENT entry.
RECURSIVE LogBefore(_, _)
LogBefore(l, k) ==
  IF l = <<>> THEN <<>>
  ELSE IF Head(l).direction = "SENT"
         THEN IF k = 1 THEN <<>> ELSE <<Head(l)>> \o LogBefore(Tail(l), k - 1)
         ELSE <<Head(l)>> \o LogBefore(Tail(l), k)

\* What is done of eff when its k-th send raises.
FailAt(eff, k) ==
  [out |-> SubSeq(eff.out, 1, k - 1), log |-> LogBefore(eff.log, k),
   raised |-> TRUE]

CoordinatorHandleSendFails ==
  /\ "coordinator" \in started
  /\ pc["coordinator"] = "HANDLE_MESSAGE"
  /\ LET m == msg["coordinator"][1]
         eff == Coordinator_handle_incoming_message(m, now)
     IN /\ \E k \in 1..Len(eff.out) : Perform("coordinator", FailAt(eff, k))
        /\ content' = [content EXCEPT !["coordinator"] = ParsePayload(m.body)]
  /\ pc' = [pc EXCEPT !["coordinator"] = "KILLED"]
  /\ exit_code' = [exit_code EXCEPT !["coordinator"] = "DeliveryError"]
  /\ UNCHANGED <<started, outsiders, message_count, active_missions, cycle_count, run_count,
                 msg, now>>

CoordinatorProactiveSendFails ==
  /\ "coordinator" \in started
  /\ pc["coordinator"] = "MAYBE_PROACTIVE"
  /\ message_count % 3 = 0
  /\ \E k \in 1..Len(send_status_request(now).out) :
       Perform("coordinator", FailAt(send_status_request(now), k))
  /\ pc' = [pc EXCEPT !["coordinator"] = "KILLED"]
  /\ exit_code' = [exit_code EXCEPT !["coordinator"] = "DeliveryError"]
  /\ UNCHANGED <<started, outsiders, message_count, active_missions, cycle_count, run_count,
                 msg, content, now>>

FieldHandleSendFails(a) ==
  /\ a \in started
  /\ pc[a] = "HANDLE_MESSAGE"
  /\ LET m == msg[a][1]
         eff == FieldAgent_handle_incoming_message(a, m, cycle_count[a], now)
     IN /\ \E k \in 1..Len(eff.out) : Perform(a, FailAt(eff, k))
        /\ content' = [content EXCEPT ![a] = ParsePayload(m.body)]
  /\ pc' = [pc EXCEPT ![a] = "KILLED"]
  /\ exit_code' = [exit_code EXCEPT ![a] = "DeliveryError"]
  /\ UNCHANGED <<started, outsiders, message_count, active_missions, cycle_count, run_count,
                 msg, now>>

FieldProactiveSendFails(a) ==
  /\ a \in started
  /\ pc[a] = "MAYBE_PROACTIVE"
  /\ LET eff == FieldAgent_proactive(a, cycle_count[a], now)
     IN \E k \in 1..Len(eff.out) : Perform(a, FailAt(eff, k))
  /\ pc' = [pc EXCEPT ![a] = "KILLED"]
  /\ exit_code' = [exit_code EXCEPT ![a] = "DeliveryError"]
  /\ UNCHANGED <<started, outsiders, message_count, active_missions, cycle_count, run_count,
                 msg, content, now>>

NextSendFails ==
  \/ CoordinatorReceive
  \/ CoordinatorHandle
  \/ CoordinatorHandleSendFails
  \/ CoordinatorProactive
  \/ CoordinatorProactiveSendFails
  \/ \E a \in FieldAgents : FieldReceive(a)
  \/ \E a \in FieldAgents : FieldHandle(a)
  \/ \E a \in FieldAgents : FieldHandleSendFails(a)
  \/ \E a \in FieldAgents : FieldProactive(a)
  \/ \E a \in FieldAgents : FieldProactiveSendFails(a)
  \/ \E a \in Actors : Sleep(a)

SpecSendFails == Init /\ [][NextSendFails]_vars

(***************************************************************************)
(* main(): the coordinator and the two field agents run together, and no   *)
(* one else sends to them.  Each behaviour is a CyclicBehaviour: its run() *)
(* is called again and again, so no agent's loop stands still for ever.    *)
(***************************************************************************)
InitSystem ==
  /\ started = Actors
  /\ outsiders = {}
  /\ pc = [a \in Actors |-> "AWAIT_MESSAGE"]
  /\ message_count = 0
  /\ active_missions = <<>>
  /\ cycle_count = [a \in FieldAgents |-> 0]
  /\ run_count = 0
  /\ msg = [a \in Actors |-> <<>>]
  /\ content = [a \in Actors |-> PyNone]
  /\ sent = [a \in Actors |-> <<>>]
  /\ log = [a \in Actors |-> <<>>]
  /\ inbox = [a \in Actors |-> <<>>]
  /\ now \in Clock
  /\ exit_code = [a \in Actors |-> ""]

\* msg = await self.receive(timeout=2) of agent a returns.
Receive(a) == IF a = "coordinator" THEN CoordinatorReceive ELSE FieldReceive(a)

\* Agent a's run() goes on from where it handles the message or makes its
\* proactive sends: the one step of Next that takes pc[a] on from there.
Proceeds(a) ==
  /\ a \in started
  /\ pc[a] \in {"HANDLE_MESSAGE", "MAYBE_PROACTIVE"}
  /\ \E q \in {"MAYBE_PROACTIVE", "IDLE_SLEEP", "KILLED"} \ {pc[a]} :
       pc' = [pc EXCEPT ![a] = q]

\* A receive that can return again and again does return; a run() that has
\* begun goes on to its sleep, and the sleep ends.
SpecSystem ==
  /\ InitSystem
  /\ [][Next]_vars
  /\ \A a \in Actors :
       SF_vars(Receive(a)) /\ WF_pc(Proceeds(a)) /\ WF_vars(Sleep(a))

(***************************************************************************)
(* Vocabulary of the properties.                                           *)
(***************************************************************************)
Perf(m) == DictGet(m.metadata, "performative", "unknown")
IsObject(body) == JsonLoads(body).ok /\ JsonLoads(body).val.k = "dict"
\* The mapping a body that is a JSON object decodes to.
Fields(body) == JsonLoads(body).val.v
SentEntries(l) == SelectSeq(l, LAMBDA e : e.direction = "SENT")
ReceivedEntries(l) == SelectSeq(l, LAMBDA e : e.direction = "RECEIVED")
\* The call of run() has got past handle_incoming_message (or was ended by it).
Handled(a) == msg[a] # <<>> /\ pc[a] \in {"MAYBE_PROACTIVE", "IDLE_SLEEP", "KILLED"}
\* The call of run() is over: it reached its sleep, or an exception ended it.
RunOver(a) == pc[a] \in {"IDLE_SLEEP", "KILLED"}
\* The message the current call of run() received.
Cur(a) == msg[a][1]
\* The coordinator has handled Cur("coordinator").
CoordinatorHandled ==
  /\ msg["coordinator"] # <<>>
  /\ pc["coordinator"] \in {"IDLE_SLEEP", "KILLED"}
\* Field agent a has handled Cur(a) and not yet gone on to its proactive
\* sends.
FieldHandled(a) ==
  /\ msg[a] # <<>>
  /\ pc[a] \in {"MAYBE_PROACTIVE", "KILLED"}
\* The action a payload asks for, None if it names none.
Action(body) == DictGet(Fields(body), "request", PyNone)

(***************************************************************************)
(* C1: in both loops, a received message has exactly one RECEIVED entry in *)
(* the log once it is handled, the SENT entries are, one for one and in    *)
(* order, the messages sent, and all of them are in the log when the call  *)
(* of run() is over (the invariant holds in every state of the call).      *)
(***************************************************************************)
C1_LogMatchesTraffic ==
  \A a \in Actors :
    /\ Len(ReceivedEntries(log[a])) = (IF Handled(a) THEN 1 ELSE 0)
    /\ Handled(a) =>
         /\ ReceivedEntries(log[a])[1].content = Cur(a).body
         /\ ReceivedEntries(log[a])[1].performative = Perf(Cur(a))
    /\ Len(SentEntries(log[a])) = Len(sent[a])
    /\ \A i \in 1..Len(sent[a]) :
         /\ SentEntries(log[a])[i].content = sent[a][i].body
         /\ SentEntries(log[a])[i].performative = Perf(sent[a][i])

C1_Witness ==
  \E a \in FieldAgents :
    /\ pc[a] = "IDLE_SLEEP"
    /\ msg[a] # <<>>
    /\ Len(sent[a]) = 3
    /\ Len(log[a]) = 4

(***************************************************************************)
(* C2: the coordinator, having handled an INFORM whose payload has the key *)
(* disaster_detected, has sent exactly one message: a REQUEST to           *)
(* fieldagent1@404.city for deploy_rescue_team with priority high and the  *)
(* reported location, "unknown" if none was reported; having handled any   *)
(* other INFORM it has sent nothing.                                       *)
(***************************************************************************)
C2_DisasterDispatch ==
  (CoordinatorHandled /\ Perf(Cur("coordinator")) = INFORM) =>
    LET m == Cur("coordinator")
    IN IF IsObject(m.body) /\ "disaster_detected" \in DOMAIN Fields(m.body)
         THEN /\ Len(sent["coordinator"]) = 1
              /\ LET r == sent["coordinator"][1]
                 IN /\ r.to = <<"fieldagent1", "@", "404.city">>
                    /\ Perf(r) = REQUEST
                    /\ IsObject(r.body)
                    /\ Fields(r.body)["request"] = PyStr("deploy_rescue_team")
                    /\ Fields(r.body)["priority"] = PyStr("high")
                    /\ Fields(r.body)["location"] =
                         (IF "location" \in DOMAIN Fields(m.body)
                            THEN Fields(m.body)["location"]
                            ELSE PyStr("unknown"))
         ELSE sent["coordinator"] = <<>>

C2_Witness ==
  /\ CoordinatorHandled
  /\ Perf(Cur("coordinator")) = INFORM
  /\ IsObject(Cur("coordinator").body)
  /\ "disaster_detected" \in DOMAIN Fields(Cur("coordinator").body)
  /\ "location" \notin DOMAIN Fields(Cur("coordinator").body)
  /\ Cur("coordinator").sender = <<"medic", "@", "example.org">>
  /\ Len(sent["coordinator"]) = 1

(***************************************************************************)
(* C3 (as claimed): the coordinator, having handled a REQUEST from address *)
(* A whose payload names the action X, has sent exactly one message, an    *)
(* AGREE addressed to A with agreed_action X.                              *)
(***************************************************************************)
C3_AgreeToRequester ==
  (/\ CoordinatorHandled
   /\ Perf(Cur("coordinator")) = REQUEST
   /\ IsObject(Cur("coordinator").body)
   /\ "request" \in DOMAIN Fields(Cur("coordinator").body)) =>
    /\ Len(sent["coordinator"]) = 1
    /\ LET r == sent["coordinator"][1]
       IN /\ Perf(r) = AGREE
          /\ r.to = Cur("coordinator").sender
          /\ IsObject(r.body)
          /\ Fields(r.body)["agreed_action"] = Action(Cur("coordinator").body)

(***************************************************************************)
(* C4: a field agent, having handled a REQUEST for deploy_rescue_team with *)
(* location L from sender S, has sent exactly one message: an AGREE to the *)
(* full address S with location L and eta "5 minutes".                     *)
(***************************************************************************)
C4_DeployAgree ==
  \A a \in FieldAgents :
    (/\ FieldHandled(a)
     /\ Perf(Cur(a)) = REQUEST
     /\ IsObject(Cur(a).body)
     /\ Action(Cur(a).body) = PyStr("deploy_rescue_team")
     /\ "location" \in DOMAIN Fields(Cur(a).body)) =>
      /\ Len(sent[a]) = 1
      /\ LET r == sent[a][1]
         IN /\ Perf(r) = AGREE
            /\ r.to = Cur(a).sender
            /\ IsObject(r.body)
            /\ Fields(r.body)["location"] = Fields(Cur(a).body)["location"]
            /\ Fields(r.body)["eta"] = PyStr("5 minutes")

C4_Witness ==
  \E a \in FieldAgents :
    /\ FieldHandled(a)
    /\ Perf(Cur(a)) = REQUEST
    /\ IsObject(Cur(a).body)
    /\ Action(Cur(a).body) = PyStr("deploy_rescue_team")
    /\ DictGet(Fields(Cur(a).body), "location", PyNone) = PyStr("Zone-7")
    /\ Cur(a).sender = <<"fieldagent2", "@", "404.city", "/", "mobile">>
    /\ Len(sent[a]) = 1

(***************************************************************************)
(* C5 (as claimed): the coordinator sends its status REQUESTs, one to      *)
(* fieldagent1 and one to fieldagent2, in exactly the calls of run() that  *)
(* are a 3rd call and received no message, and in no other call.           *)
(***************************************************************************)
IsStatusRequest(r) ==
  /\ Perf(r) = REQUEST
  /\ IsObject(r.body)
  /\ Action(r.body) = PyStr("status_update")
StatusRequests(s) == SelectSeq(s, IsStatusRequest)

C5_EveryThirdIdleIteration ==
  pc["coordinator"] = "IDLE_SLEEP" =>
    LET rs == StatusRequests(sent["coordinator"])
    IN IF run_count = 0 /\ msg["coordinator"] = <<>>
         THEN /\ Len(rs) = 2
              /\ rs[1].to = <<"fieldagent1", "@", "404.city">>
              /\ rs[2].to = <<"fieldagent2", "@", "404.city">>
         ELSE rs = <<>>

(***************************************************************************)
(* C6 (as claimed): in every call of a field agent's run(), with           *)
(* cycle_count = c after its increment and whether or not a message was    *)
(* received, a proactive status INFORM is sent iff c mod 4 = 0, and a      *)
(* disaster INFORM iff c mod 5 = 0, the latter with the type               *)
(* [Fire, Flood, Earthquake, Building Collapse][c mod 4] and the location  *)
(* Zone-(c mod 10).                                                        *)
(***************************************************************************)
IsStatusInform(r) ==
  /\ Perf(r) = INFORM
  /\ IsObject(r.body)
  /\ DictGet(Fields(r.body), "status", PyNone) = PyStr("operational")
IsDisasterInform(r) ==
  /\ Perf(r) = INFORM
  /\ IsObject(r.body)
  /\ "disaster_detected" \in DOMAIN Fields(r.body)
\* The status INFORMs that answer the received message: one if it is a
\* REQUEST for status_update.
Reactive(a) ==
  IF /\ msg[a] # <<>>
     /\ Perf(Cur(a)) = REQUEST
     /\ IsObject(Cur(a).body)
     /\ Action(Cur(a).body) = PyStr("status_update")
    THEN 1 ELSE 0
ZoneOf(c) ==
  <<"Zone-0", "Zone-1", "Zone-2", "Zone-3", "Zone-4",
    "Zone-5", "Zone-6", "Zone-7", "Zone-8", "Zone-9">>[(c % 10) + 1]
TypeOf(c) == <<"Fire", "Flood", "Earthquake", "Building Collapse">>[(c % 4) + 1]

ProactiveAsClaimed(a) ==
  LET c == cycle_count[a]
      st == SelectSeq(sent[a], IsStatusInform)
      ds == SelectSeq(sent[a], IsDisasterInform)
  IN /\ Len(st) = Reactive(a) + (IF c % 4 = 0 THEN 1 ELSE 0)
     /\ Len(ds) = (IF c % 5 = 0 THEN 1 ELSE 0)
     /\ c % 5 = 0 =>
          /\ Fields(ds[1].body)["disaster_detected"] = PyStr(TypeOf(c))
          /\ Fields(ds[1].body)["location"] = PyStr(ZoneOf(c))

C6_ProactiveEveryIteration ==
  \A a \in FieldAgents : RunOver(a) => ProactiveAsClaimed(a)

(***************************************************************************)
(* C7 (as claimed): in every call of a field agent's run() with            *)
(* cycle_count a multiple of 20, the status INFORM and then the disaster   *)
(* INFORM are both sent, and the last two log entries are their two SENT   *)
(* entries, in that order.                                                 *)
(***************************************************************************)
BothSentAndLogged(a) ==
  LET n == Len(sent[a])
      k == Len(log[a])
  IN /\ n >= 2
     /\ k >= 2
     /\ IsStatusInform(sent[a][n - 1])
     /\ IsDisasterInform(sent[a][n])
     /\ log[a][k - 1].direction = "SENT"
     /\ log[a][k - 1].content = sent[a][n - 1].body
     /\ log[a][k].direction = "SENT"
     /\ log[a][k].content = sent[a][n].body

C7_BothTriggersFire ==
  \A a \in FieldAgents :
    (RunOver(a) /\ cycle_count[a] % 20 = 0) => BothSentAndLogged(a)

(***************************************************************************)
(* C8: a field agent, having handled a REQUEST for status_update, has sent *)
(* exactly one message, an INFORM with status operational, resources       *)
(* available and location Zone-(cycle_count mod 10) for the cycle_count of *)
(* this call of run(); having handled a REQUEST for anything else than     *)
(* status_update or deploy_rescue_team, it has sent nothing.               *)
(***************************************************************************)
C8_StatusReply ==
  \A a \in FieldAgents :
    (FieldHandled(a) /\ Perf(Cur(a)) = REQUEST) =>
      IF IsObject(Cur(a).body) /\ Action(Cur(a).body) = PyStr("status_update")
        THEN /\ Len(sent[a]) = 1
             /\ LET r == sent[a][1]
                IN /\ Perf(r) = INFORM
                   /\ IsObject(r.body)
                   /\ Fields(r.body)["status"] = PyStr("operational")
                   /\ Fields(r.body)["resources"] = PyStr("available")
                   /\ Fields(r.body)["location"] = PyStr(ZoneOf(cycle_count[a]))
      ELSE IF IsObject(Cur(a).body) /\ Action(Cur(a).body) = PyStr("deploy_rescue_team")
        THEN TRUE
      ELSE sent[a] = <<>>

C8_Witness ==
  \E a \in FieldAgents :
    /\ FieldHandled(a)
    /\ Perf(Cur(a)) = REQUEST
    /\ IsObject(Cur(a).body)
    /\ Action(Cur(a).body) = PyStr("status_update")
    /\ cycle_count[a] = 17
    /\ Len(sent[a]) = 1

(***************************************************************************)
(* C9: in both roles, a body P that json.loads rejects reaches the         *)
(* handlers as the mapping {"text": P}, and the call of run() that         *)
(* received it is not ended by an exception.                               *)
(***************************************************************************)
C9_ParseFallback ==
  \A a \in Actors :
    (Handled(a) /\ ~JsonLoads(Cur(a).body).ok) =>
      /\ content[a].k = "dict"
      /\ DOMAIN content[a].v = {"text"}
      /\ content[a].v["text"] = PyRaw(Cur(a).body)
      /\ pc[a] # "KILLED"

C9_Witness ==
  /\ pc["coordinator"] = "IDLE_SLEEP"
  /\ msg["coordinator"] # <<>>
  /\ Perf(Cur("coordinator")) = REQUEST
  /\ Cur("coordinator").body = <<WordTok("need"), WordTok("help")>>
  /\ Len(sent["coordinator"]) = 1

(***************************************************************************)
(* C10 (as claimed): whatever the body of a received message, what the     *)
(* handlers work on is a mapping, and no key lookup on it fails.           *)
(***************************************************************************)
\* The received message has a performative the role's if/elif chain handles.
Routed(a) ==
  IF a = "coordinator" THEN Perf(Cur(a)) \in {INFORM, REQUEST, AGREE}
  ELSE Perf(Cur(a)) = REQUEST

C10_PayloadAlwaysMapping ==
  \A a \in Actors :
    (Handled(a) /\ Routed(a)) => (content[a].k = "dict" /\ pc[a] # "KILLED")

(***************************************************************************)
(* C11: a send that fails in an iteration of either loop does not end the  *)
(* loop: the failure is logged and the loop goes on to its next iteration, *)
(* so no call of run() is ever left by a DeliveryError.                    *)
(***************************************************************************)
C11_SendFailureSurvived ==
  \A a \in started : exit_code[a] = "DeliveryError" => pc[a] # "KILLED"

(***************************************************************************)
(* C12: an exception raised while a handler executes is caught at the loop *)
(* boundary: the call of run() it happened in still reaches its sleep, so  *)
(* no call of run() is ever left by a handler's exception.                 *)
(***************************************************************************)
C12_HandlerFailureCaught ==
  \A a \in started :
    (Handled(a) /\ exit_code[a] = "AttributeError") => pc[a] = "IDLE_SLEEP"

(***************************************************************************)
(* C13: a received message whose performative no branch handles (for the   *)
(* coordinator anything but INFORM, REQUEST, AGREE; for a field agent      *)
(* anything but REQUEST) leaves its RECEIVED log entry and nothing else:   *)
(* the handler sends nothing, logs no SENT entry and raises nothing.  An   *)
(* AGREE the coordinator receives is logged as RECEIVED and answered by no *)
(* message.                                                                *)
(***************************************************************************)
OnlyReceivedLogged(a) ==
  /\ Len(log[a]) = 1
  /\ log[a][1].direction = "RECEIVED"
  /\ log[a][1].content = Cur(a).body
  /\ sent[a] = <<>>

C13_UnroutedOnlyLogged ==
  /\ \A a \in Actors :
       (Handled(a) /\ ~Routed(a) /\ (a \in FieldAgents => FieldHandled(a))) =>
         /\ OnlyReceivedLogged(a)
         /\ pc[a] # "KILLED"
         /\ exit_code[a] = ""
  /\ (CoordinatorHandled /\ Perf(Cur("coordinator")) = AGREE) =>
       OnlyReceivedLogged("coordinator")

\* The coordinator has handled a PROPOSE whose body reports a disaster.
C13_Witness ==
  /\ CoordinatorHandled
  /\ Perf(Cur("coordinator")) = PROPOSE
  /\ IsObject(Cur("coordinator").body)
  /\ DictGet(Fields(Cur("coordinator").body), "disaster_detected", PyNone) # PyNone

(***************************************************************************)
(* C15 (as claimed): for every handled message the RECEIVED entry is       *)
(* appended when the handler has run, so it comes after the SENT entries   *)
(* of the responses: once the message is handled, the RECEIVED entry is    *)
(* the last entry the call of run() has logged.                            *)
(***************************************************************************)
\* Agent a has handled Cur(a) and done nothing since.
JustHandled(a) == IF a = "coordinator" THEN CoordinatorHandled ELSE FieldHandled(a)

C15_ReceivedLoggedLast ==
  \A a \in Actors :
    JustHandled(a) =>
      /\ log[a] # <<>>
      /\ log[a][Len(log[a])].direction = "RECEIVED"

(***************************************************************************)
(* C15 (amended): for every handled message the RECEIVED entry is appended *)
(* before the message is routed, so it is the first entry the call of      *)
(* run() logs and the SENT entries of the responses (and of the proactive  *)
(* sends of the same call) all come after it.                              *)
(***************************************************************************)
C15_ReceivedLoggedFirst ==
  \A a \in Actors :
    Handled(a) =>
      /\ log[a] # <<>>
      /\ log[a][1].direction = "RECEIVED"
      /\ log[a][1].content = Cur(a).body
      /\ \A i \in 2..Len(log[a]) : log[a][i].direction = "SENT"

\* The coordinator has answered a disaster report: RECEIVED, then SENT.
C15_Witness ==
  /\ CoordinatorHandled
  /\ Perf(Cur("coordinator")) = INFORM
  /\ Len(sent["coordinator"]) = 1
  /\ Len(log["coordinator"]) = 2
  /\ log["coordinator"][2].direction = "SENT"

(***************************************************************************)
(* C16: cycle_count starts at 0, goes up by exactly 1 when a call of the   *)
(* field agent's run() begins, whether or not receive returns a message,   *)
(* and no other step changes it; message_count starts at 0, goes up by     *)
(* exactly 1 when a call of the coordinator's run() receives a message and *)
(* is left alone by a call that receives none and by every other step;     *)
(* active_missions is empty in every state.                                *)
(***************************************************************************)
\* This step begins a call of a's run().
Begins(a) == pc[a] = "AWAIT_MESSAGE" /\ pc'[a] # "AWAIT_MESSAGE"

CounterStep ==
  /\ \A a \in FieldAgents :
       cycle_count'[a] = IF Begins(a) THEN cycle_count[a] + 1 ELSE cycle_count[a]
  /\ message_count' =
       IF Begins("coordinator") /\ msg'["coordinator"] # <<>>
         THEN message_count + 1 ELSE message_count
  /\ active_missions' = <<>>

C16_CounterDiscipline ==
  /\ \A a \in FieldAgents : cycle_count[a] = 0
  /\ message_count = 0
  /\ active_missions = <<>>
  /\ [][CounterStep]_vars

\* A field agent is in its third call of run(), none of which it spent
\* handling a message so far, or the coordinator is idle after two messages.
C16_Witness ==
  \/ \E a \in FieldAgents :
       /\ cycle_count[a] = 3
       /\ pc[a] = "MAYBE_PROACTIVE"
       /\ msg[a] = <<>>
  \/ /\ message_count = 2
     /\ pc["coordinator"] = "MAYBE_PROACTIVE"
     /\ msg["coordinator"] = <<>>

(***************************************************************************)
(* C17: with the coordinator and the two field agents together, a chain of *)
(* messages each of which a handler sent in answer to the one before has   *)
(* at most 3 messages: no message queued, received or sent is the fourth   *)
(* of its chain, no handler answers an AGREE, and no handler answers a     *)
(* status INFORM.                                                          *)
(***************************************************************************)
\* The messages of sequence q are at most the n-th of their chains.
Within(q, n) == \A i \in DOMAIN q : q[i].hops <= n

C17_ChainsAtMostThree ==
  \A a \in Actors :
    /\ Within(inbox[a], 3)
    /\ Within(sent[a], 3)
    /\ Within(msg[a], 3)
    /\ (JustHandled(a) /\ (Perf(Cur(a)) = AGREE \/ IsStatusInform(Cur(a)))) =>
         sent[a] = <<>>

\* The coordinator has handled an AGREE that is the third message of its
\* chain and has sent nothing.
C17_Witness ==
  /\ started = Actors
  /\ CoordinatorHandled
  /\ Perf(Cur("coordinator")) = AGREE
  /\ Cur("coordinator").hops = 3
  /\ sent["coordinator"] = <<>>

(***************************************************************************)
(* C18: with the three agents together, every loop iterating for ever and  *)
(* no send failing, a disaster INFORM a field agent sends leads to the     *)
(* coordinator sending a deploy_rescue_team REQUEST for the reported       *)
(* location to fieldagent1, and that leads to the coordinator receiving an *)
(* AGREE from fieldagent1 with that location.                              *)
(***************************************************************************)
Location(m) == DictGet(Fields(m.body), "location", PyNone)

\* Field agent f has just sent a disaster INFORM for location l.
DisasterReported(f, l) ==
  \E i \in DOMAIN sent[f] :
    IsDisasterInform(sent[f][i]) /\ Location(sent[f][i]) = l

\* The coordinator has just sent fieldagent1 a deploy_rescue_team REQUEST
\* for location l.
DeployRequested(l) ==
  \E i \in DOMAIN sent["coordinator"] :
    LET r == sent["coordinator"][i]
    IN /\ Perf(r) = REQUEST
       /\ r.to = Jid("fieldagent1")
       /\ IsObject(r.body)
       /\ Action(r.body) = PyStr("deploy_rescue_team")
       /\ Location(r) = l

\* The coordinator has received an AGREE from fieldagent1 for location l.
AgreeReceived(l) ==
  /\ msg["coordinator"] # <<>>
  /\ Perf(Cur("coordinator")) = AGREE
  /\ Bare(Cur("coordinator").sender) = Jid("fieldagent1")
  /\ IsObject(Cur("coordinator").body)
  /\ Location(Cur("coordinator")) = l

C18_DispatchLiveness ==
  \A l \in {Zone(0), Zone(5)} :
    /\ \A f \in FieldAgents : DisasterReported(f, l) ~> DeployRequested(l)
    /\ DeployRequested(l) ~> AgreeReceived(l)

\* fieldagent2 reported a disaster in Zone-5 and the coordinator has the
\* AGREE of fieldagent1 for Zone-5.
C18_Witness ==
  /\ started = Actors
  /\ cycle_count["fieldagent2"] >= 5
  /\ AgreeReceived(Zone(5))
  /\ Cur("coordinator").hops = 3

(***************************************************************************)
(* C19: every INFORM a field agent sends, of its own accord or in answer   *)
(* to a REQUEST for status_update, is addressed to coordinator@404.city,   *)
(* whoever sent the REQUEST: a REQUEST for status_update from any other    *)
(* sender is answered by one INFORM, and that goes to the coordinator.     *)
(***************************************************************************)
\* The received message asks for a status update and is not the coordinator's.
AskedByAnother(a) ==
  /\ msg[a] # <<>>
  /\ IsStatusRequest(Cur(a))
  /\ Bare(Cur(a).sender) # Jid("coordinator")

C19_InformsToCoordinator ==
  \A a \in FieldAgents :
    /\ \A i \in DOMAIN sent[a] :
         Perf(sent[a][i]) = INFORM => sent[a][i].to = Jid("coordinator")
    /\ (FieldHandled(a) /\ AskedByAnother(a)) =>
         /\ Len(sent[a]) = 1
         /\ Perf(sent[a][1]) = INFORM
         /\ sent[a][1].to # Cur(a).sender

\* A field agent has answered medic@example.org's REQUEST for status_update.
C19_Witness ==
  \E a \in FieldAgents :
    /\ FieldHandled(a)
    /\ AskedByAnother(a)
    /\ Cur(a).sender = <<"medic", "@", "example.org">>
    /\ Len(sent[a]) = 1
    /\ sent[a][1].to = Jid("coordinator")

(***************************************************************************)
(* C20 (as claimed): a disaster INFORM is always for Zone-0 or Zone-5, and *)
(* every 20 consecutive calls of a field agent's run() report each of the  *)
(* four disaster types exactly once, in the order Flood (cycle_count 5),   *)
(* Earthquake (10), Building Collapse (15), Fire (20), and so on with      *)
(* period 20: a call that is followed by another, and a call that is the   *)
(* twentieth or a later one, has reported the type whose turn it is if its *)
(* cycle_count is a multiple of 5, and none otherwise.                     *)
(***************************************************************************)
DisasterOrder == <<"Flood", "Earthquake", "Building Collapse", "Fire">>

\* What the call of run() at cycle_count[a] has reported is what the order
\* says.
ReportedInTurn(a) ==
  LET c == cycle_count[a]
      ds == SelectSeq(sent[a], IsDisasterInform)
  IN IF c % 5 = 0
       THEN /\ Len(ds) = 1
            /\ Fields(ds[1].body)["disaster_detected"] =
                 PyStr(DisasterOrder[(((c \div 5) - 1) % 4) + 1])
       ELSE ds = <<>>

C20_DisasterRotation ==
  \A a \in FieldAgents :
    /\ \A i \in DOMAIN sent[a] :
         IsDisasterInform(sent[a][i]) =>
           Location(sent[a][i]) \in {PyStr("Zone-0"), PyStr("Zone-5")}
    /\ pc[a] = "IDLE_SLEEP" => ReportedInTurn(a)
    /\ (RunOver(a) /\ cycle_count[a] >= 20) => ReportedInTurn(a)

====
